---- MODULE Spec2Model ----
(***************************************************************************)
(* Model of mergebot.py: the polling loop that fetches a pull request, its *)
(* reviews and its commit statuses, decides whether to merge, and merges   *)
(* or sleeps; and statuses_get, which reconciles the raw status reports.   *)
(*                                                                         *)
(* Strings are modelled by model values; where the code compares strings   *)
(* (the sort keys of statuses_get) a rank function gives Python's order.   *)
(* target_url and description of a status are only printed and are left    *)
(* out of the records.                                                     *)
(***************************************************************************)
EXTENDS Integers, Sequences, FiniteSets, TLC

\* ---------------------------------------------------------------- bounds
MaxReviews == 1
MaxStatuses == 1
MaxReports == 3
MaxTitleReviews == 3

\* ------------------------------------------------------------ value sets
Users == {"alice", "bob"}
Reviewers == {"carol", "dave"}
ReviewStates == {"APPROVED", "CHANGES_REQUESTED"}
Shas == {"sha1", "sha2"}
PrStates == {"open", "closed"}
Mergeables == {"true", "false", "null"}
MergeableStates == {"clean", "has_hooks", "dirty", "blocked", "unknown"}
Contexts == {"ci/build", "ci/lint"}
CheckStates == {"error", "failure", "pending", "success"}
Times == {1, 2}
Unset == "unset"
NoTitle == <<>>

\* Python's order on the strings used as sort keys.
ContextRank(c) == IF c = "ci/build" THEN 1 ELSE 2
StateRank(s) == CASE s = "error" -> 1 [] s = "failure" -> 2
                  [] s = "pending" -> 3 [] OTHER -> 4

user == "alice"

BoundedSeq(S, n) == UNION {[1..k -> S] : k \in 0..n}

Reports == [context : Contexts, state : CheckStates, updated_at : Times]
\* The statuses the server returns to the loop: reports of one context.
LoopReports == [context : {"ci/build"}, state : CheckStates, updated_at : {1}]
Reviews == [user : Reviewers, state : ReviewStates]
\* The reviews SpecTitle draws from.
TitleReviewers == {"alice", "bob", "carol"}
TitleReviews == [user : TitleReviewers, state : ReviewStates]

\* --------------------------------------------------- statuses_get (pure)
AddRequiredMutFalse(s, required_statuses) ==
    [context |-> s.context, state |-> s.state, updated_at |-> s.updated_at,
     required |-> FALSE]
AddRequired(s, required_statuses) ==
    [context |-> s.context, state |-> s.state, updated_at |-> s.updated_at,
     required |-> s.context \in required_statuses]

\* The two sort keys and the two grouping keys of statuses_get.
KeyLess(by, a, b) ==
    IF by = "context"
    THEN \/ ContextRank(a.context) < ContextRank(b.context)
         \/ a.context = b.context /\ a.updated_at < b.updated_at
    ELSE StateRank(a.state) < StateRank(b.state)

GroupKey(by, s) == IF by = "context" THEN s.context ELSE s.state

\* sorted(xs, key): Python's stable sort, as an insertion sort that puts
\* each element after the elements whose key is not greater.
RECURSIVE InsertSorted(_, _, _)
InsertSorted(by, x, s) ==
    IF s = <<>> THEN <<x>>
    ELSE IF KeyLess(by, x, s[Len(s)])
         THEN Append(InsertSorted(by, x, SubSeq(s, 1, Len(s) - 1)), s[Len(s)])
         ELSE Append(s, x)

RECURSIVE Sorted(_, _)
Sorted(by, s) ==
    IF s = <<>> THEN <<>>
    ELSE InsertSorted(by, s[Len(s)], Sorted(by, SubSeq(s, 1, Len(s) - 1)))

\* itertools.groupby: the maximal runs of consecutive elements with equal key,
\* as a sequence of <<key, run>>.
RECURSIVE GroupBy(_, _)
GroupBy(by, s) ==
    IF s = <<>> THEN <<>>
    ELSE LET g == GroupBy(by, SubSeq(s, 1, Len(s) - 1))
             x == s[Len(s)]
         IN IF g # <<>> /\ g[Len(g)][1] = GroupKey(by, x)
            THEN [g EXCEPT ![Len(g)] = <<GroupKey(by, x), Append(g[Len(g)][2], x)>>]
            ELSE Append(g, <<GroupKey(by, x), <<x>>>>)

\* dict(pairs): a later pair with the same key replaces an earlier one.
Dict(pairs) ==
    [k \in {pairs[i][1] : i \in DOMAIN pairs} |->
        pairs[CHOOSE i \in DOMAIN pairs :
                /\ pairs[i][1] = k
                /\ \A j \in DOMAIN pairs : pairs[j][1] = k => j <= i][2]]

\* d.get(k, [])
Get(d, k) == IF k \in DOMAIN d THEN d[k] ELSE <<>>

\* list(v)[-1]
PickMutFirst(run) == run[1]
Pick(run) == run[Len(run)]

\* line 108: sorted(statuses, key=lambda s: (s['context'], s['updated_at']))
SortByContextTime(s) == Sorted("context", s)

\* line 115: sorted(statuses, key=lambda s: s['state'])
SortByState(s) == Sorted("state", s)

\* lines 105-110: the latest status of each context, with its required flag
RECURSIVE MissingAsPending(_)
MissingAsPending(cs) ==
    IF cs = {} THEN <<>>
    ELSE LET c == CHOOSE x \in cs : TRUE
         IN <<[context |-> c, state |-> "pending", updated_at |-> 1,
               required |-> TRUE]>> \o MissingAsPending(cs \ {c})
LatestStatusesMutSynthesize(required_statuses, raw) ==
    LET flagged == [i \in DOMAIN raw |-> AddRequired(raw[i], required_statuses)]
        groups == GroupBy("context", SortByContextTime(flagged))
    IN [i \in DOMAIN groups |-> Pick(groups[i][2])]
       \o MissingAsPending(required_statuses \ {raw[i].context : i \in DOMAIN raw})
LatestStatuses(required_statuses, raw) ==
    LET flagged == [i \in DOMAIN raw |-> AddRequired(raw[i], required_statuses)]
        groups == GroupBy("context", SortByContextTime(flagged))
    IN [i \in DOMAIN groups |-> Pick(groups[i][2])]

\* lines 112-118: grouped by state
GroupedByState(latest) == Dict(GroupBy("state", SortByState(latest)))

statuses_get(required_statuses, raw) ==
    GroupedByState(LatestStatuses(required_statuses, raw))

\* line 169 and line 170: what the loop lists as not successful and as pending
FailingMutNoError(st) == Get(st, "failure")
Failing(st) == Get(st, "error") \o Get(st, "failure")
Pending(st) == Get(st, "pending")

\* ------------------------------------------------------- the main loop
VARIABLES
    pc,           \* where the program is: a point of the loop, or how it ended
    args,         \* the command line: any_author, commit_title
    remote,       \* the pull request on the server: author, head sha, state, merged
    pr,           \* author, branch, sha, state, mergeable, mergeable_state of line 143-149
    approvers,    \* line 150
    statuses,     \* line 168
    log,          \* the messages printed in the current cycle
    merge_calls,  \* how many times merge() was called
    merge_request,\* the body of the merge request sent
    r,            \* line 180: the response of the merge call
    exc,          \* the uncaught exception that ended the run, if any
    rec_in,       \* SpecReconcile: the input of statuses_get
    rec_out,      \* SpecReconcile: its intermediate list and its result
    statuses_sha, \* line 103: the sha the statuses were requested for
    title_in,     \* SpecTitle: the reviews returned and the title override
    title_out     \* SpecTitle: the approvers and the commit title computed

vars == <<pc, args, remote, pr, approvers, statuses, log, merge_calls,
          merge_request, r, exc, rec_in, rec_out, statuses_sha, title_in,
          title_out>>

Errors == {"AuthError", "NotFoundError", "RateLimitError", "TransportError"}
ReadCalls == {"pull_get", "reviews_get", "required_statuses_get", "statuses_get"}
NoExc == [call |-> Unset, error |-> Unset]
NoPr == [author |-> Unset, branch |-> Unset, sha |-> Unset, state |-> Unset,
         mergeable |-> Unset, mergeable_state |-> Unset]
NoRequest == [commit_title |-> <<>>, sha |-> Unset]
NoResponse == [merged |-> Unset]
NoOut == [done |-> FALSE, latest |-> <<>>, statuses |-> <<>>]
NoRec == [required |-> {}, raw |-> <<>>]
NoTitleIn == [reviews |-> <<>>, commit_title |-> NoTitle]
NoTitleOut == [done |-> FALSE, approvers |-> <<>>, commit_title |-> <<>>]
Terminal == {"Done", "Aborted", "Crashed"}

author == pr.author
branch == pr.branch
sha == pr.sha
state == pr.state
mergeable == pr.mergeable
mergeable_state == pr.mergeable_state

Init ==
    /\ pc = "Polling"
    /\ args \in [any_author : BOOLEAN, commit_title : {NoTitle, <<"Release">>}]
    /\ remote \in [author : Users, sha : {"sha1"}, state : PrStates, merged : {FALSE}]
    /\ pr = NoPr
    /\ approvers = <<>>
    /\ statuses = <<>>
    /\ log = {}
    /\ merge_calls = 0
    /\ merge_request = NoRequest
    /\ r = NoResponse
    /\ exc = NoExc
    /\ rec_in = NoRec
    /\ rec_out = NoOut
    /\ statuses_sha = Unset
    /\ title_in = NoTitleIn
    /\ title_out = NoTitleOut

\* lines 81-93: urlopen raises on an HTTP error status or a network failure, and
\* nothing in the program catches it: the run ends there.
Raise(call) ==
    /\ \E e \in Errors : exc' = [call |-> call, error |-> e]
    /\ pc' = "Crashed"

\* lines 142-149
PullGet ==
    /\ pc = "Polling"
    /\ log' = {}
    /\ \/ /\ \E m \in Mergeables, ms \in MergeableStates :
                pr' = [author |-> remote.author, branch |-> "topic",
                       sha |-> remote.sha, state |-> remote.state,
                       mergeable |-> m, mergeable_state |-> ms]
          /\ pc' = "Reviews"
          /\ UNCHANGED exc
       \/ /\ Raise("pull_get")
          /\ UNCHANGED pr
    /\ UNCHANGED <<args, remote, approvers, statuses, merge_calls, merge_request,
                   r, rec_in, rec_out, title_in, title_out,
                   statuses_sha>>

\* line 150
RECURSIVE Dedup(_)
Dedup(s) ==
    IF s = <<>> THEN <<>>
    ELSE LET d == Dedup(SubSeq(s, 1, Len(s) - 1))
         IN IF \E i \in DOMAIN d : d[i] = s[Len(s)] THEN d ELSE Append(d, s[Len(s)])
ApproversMutDedup(reviews) ==
    LET approved == SelectSeq(reviews, LAMBDA x : x.state = "APPROVED")
    IN Dedup([i \in DOMAIN approved |-> approved[i].user])
Approvers(reviews) ==
    LET approved == SelectSeq(reviews, LAMBDA x : x.state = "APPROVED")
    IN [i \in DOMAIN approved |-> approved[i].user]

ReviewsGet ==
    /\ pc = "Reviews"
    /\ \/ /\ \E reviews \in BoundedSeq(Reviews, MaxReviews) :
                approvers' = Approvers(reviews)
          /\ pc' = "Check"
          /\ UNCHANGED exc
       \/ /\ Raise("reviews_get")
          /\ UNCHANGED approvers
    /\ UNCHANGED <<args, remote, pr, statuses, log, merge_calls, merge_request,
                   r, rec_in, rec_out, title_in, title_out,
                   statuses_sha>>

\* line 160
AuthorRejectedMutNever == FALSE
AuthorRejected == author # user /\ ~args.any_author

\* line 164
IsClosedMutNever == FALSE
IsClosed == state = "closed"

\* lines 160-166: which check ends the run, if any
AbortRuleMutNone == "none"
AbortRuleMutClosedFirst ==
    IF IsClosed THEN "closed" ELSE IF AuthorRejected THEN "not_author" ELSE "none"
AbortRule ==
    IF AuthorRejected THEN "not_author" ELSE IF IsClosed THEN "closed" ELSE "none"

Checks ==
    /\ pc = "Check"
    /\ \/ /\ AbortRule # "none"
          /\ log' = log \cup {AbortRule}
          /\ pc' = "Aborted"
       \/ /\ AbortRule = "none"
          /\ pc' = "Statuses"
          /\ UNCHANGED log
    /\ UNCHANGED <<args, remote, pr, approvers, statuses, merge_calls,
                   merge_request, r, exc, rec_in, rec_out, title_in, title_out,
                   statuses_sha>>

\* line 168 and line 103: the statuses are requested for the sha of the
\* snapshot of this cycle
StatusesSha == sha

\* line 168, lines 98-118
StatusesGet ==
    /\ pc = "Statuses"
    /\ \/ /\ \E required_statuses \in SUBSET Contexts,
                raw \in BoundedSeq(LoopReports, MaxStatuses) :
                statuses' = statuses_get(required_statuses, raw)
          /\ statuses_sha' = StatusesSha
          /\ pc' = "Evaluate"
          /\ UNCHANGED exc
       \/ /\ Raise("required_statuses_get")
          /\ UNCHANGED <<statuses, statuses_sha>>
       \/ /\ Raise("statuses_get")
          /\ UNCHANGED <<statuses, statuses_sha>>
    /\ UNCHANGED <<args, remote, pr, approvers, log, merge_calls, merge_request,
                   r, rec_in, rec_out, title_in, title_out>>

\* line 175
JoinPlus(names) ==
    IF Len(names) = 1 THEN <<names[1]>> ELSE <<names[1], "+", names[2]>>
CommitTitleMutOneApprover(override, head_ref, approved) ==
    IF override # NoTitle THEN override
    ELSE <<"Merge ", head_ref, " [ok:">>
         \o JoinPlus(SubSeq(approved, 1, IF Len(approved) = 0 THEN 0 ELSE 1)
                     \o <<"mergebot">>)
         \o <<"]">>
CommitTitle(override, head_ref, approved) ==
    IF override # NoTitle THEN override
    ELSE <<"Merge ", head_ref, " [ok:">>
         \o JoinPlus(SubSeq(approved \o <<"mergebot">>, 1,
                            IF Len(approved) = 0 THEN 1 ELSE 2))
         \o <<"]">>
commit_title == CommitTitle(args.commit_title, branch, approvers)

\* line 177
MergeConditionMutNever == FALSE
MergeConditionMutIgnoreFlag == mergeable_state \in {"has_hooks", "clean"}
MergeConditionMutIgnoreState == mergeable = "true"
MergeConditionMutHooksOnly == mergeable = "true" /\ mergeable_state = "has_hooks"
MergeCondition == mergeable = "true" /\ mergeable_state \in {"has_hooks", "clean"}

\* lines 169-173: what the cycle reports
Reported ==
    (IF Failing(statuses) # <<>> THEN {"checks_failed"} ELSE {})
    \cup (IF Pending(statuses) # <<>> THEN {"checks_pending"} ELSE {})
    \cup (IF mergeable_state = "dirty" THEN {"conflict"} ELSE {})

\* lines 169-179 and 188
Evaluate ==
    /\ pc = "Evaluate"
    /\ \/ /\ MergeCondition
          /\ log' = log \cup Reported \cup {"mergeable"}
          /\ pc' = "Merging"
       \/ /\ ~MergeCondition
          /\ log' = log \cup Reported \cup {"not_mergeable_yet"}
          /\ pc' = "Sleeping"
    /\ UNCHANGED <<args, remote, pr, approvers, statuses, merge_calls,
                   merge_request, r, exc, rec_in, rec_out, title_in, title_out,
                   statuses_sha>>

\* lines 181-186: how the loop ends on the response of the merge call
MergeExitMutRetry(response) ==
    IF response.merged = "true" THEN "Done" ELSE "Polling"
MergeExit(response) ==
    IF response.merged = "true" THEN "Done" ELSE "Aborted"

\* line 180: the sha the merge request carries
MergeShaMutFirst == "sha1"
MergeSha == sha

\* lines 120-130: the pull request on the server after a merge call answered
\* with response
RemoteAfterMergeMutAlways(response) ==
    [remote EXCEPT !.state = "closed", !.merged = TRUE]
RemoteAfterMerge(response) ==
    IF response.merged = "true"
    THEN [remote EXCEPT !.state = "closed", !.merged = TRUE]
    ELSE remote

\* lines 180-186, 120-130. The server merges only an open pull request whose
\* head is the sha of the request.
Merge ==
    /\ pc = "Merging"
    /\ merge_calls' = merge_calls + 1
    /\ merge_request' = [commit_title |-> commit_title, sha |-> MergeSha]
    /\ \/ /\ remote.state = "open" /\ remote.sha = MergeSha
          /\ r' = [merged |-> "true"]
          /\ remote' = RemoteAfterMerge(r')
          /\ pc' = MergeExit(r')
          /\ log' = log \cup {"merged"}
          /\ UNCHANGED exc
       \/ /\ r' = [merged |-> "false"]
          /\ remote' = RemoteAfterMerge(r')
          /\ pc' = MergeExit(r')
          /\ log' = log \cup {"could_not_merge"}
          /\ UNCHANGED exc
       \/ /\ Raise("merge")
          /\ UNCHANGED <<remote, r, log>>
    /\ UNCHANGED <<args, pr, approvers, statuses, rec_in, rec_out, title_in, title_out,
                   statuses_sha>>

\* lines 189-190. The names bound in a cycle are all bound again before they
\* are read in the next one (lines 143-150, 168), so the values of the cycle
\* that ends are dropped here.
Sleep ==
    /\ pc = "Sleeping"
    /\ pc' = "Polling"
    /\ pr' = NoPr
    /\ approvers' = <<>>
    /\ statuses' = <<>>
    /\ statuses_sha' = Unset
    /\ UNCHANGED <<args, remote, log, merge_calls, merge_request, r, exc,
                   rec_in, rec_out, title_in, title_out>>

\* The world outside the program: a push moves the head, someone closes the
\* pull request.
Push ==
    /\ pc \notin Terminal
    /\ remote.state = "open"
    /\ \E s \in Shas \ {remote.sha} : remote' = [remote EXCEPT !.sha = s]
    /\ UNCHANGED <<pc, args, pr, approvers, statuses, log, merge_calls,
                   merge_request, r, exc, rec_in, rec_out, title_in, title_out,
                   statuses_sha>>

Close ==
    /\ pc \notin Terminal
    /\ remote.state = "open"
    /\ remote' = [remote EXCEPT !.state = "closed"]
    /\ UNCHANGED <<pc, args, pr, approvers, statuses, log, merge_calls,
                   merge_request, r, exc, rec_in, rec_out, title_in, title_out,
                   statuses_sha>>

Next ==
    \/ PullGet
    \/ ReviewsGet
    \/ Checks
    \/ StatusesGet
    \/ Evaluate
    \/ Merge
    \/ Sleep
    \/ Push
    \/ Close

Spec == Init /\ [][Next]_vars

\* The steps of the program itself. It is one thread: a request returns or
\* raises, the sleep of line 189 ends, so a step that is possible is taken.
Step ==
    \/ PullGet
    \/ ReviewsGet
    \/ Checks
    \/ StatusesGet
    \/ Evaluate
    \/ Merge
    \/ Sleep

SpecLive == Init /\ [][Next]_vars /\ WF_vars(Step)

\* ------------------------------------------- statuses_get on its own
\* The same variables, with the loop at rest: an input of statuses_get is
\* drawn and Reconcile applies it.
InitReconcile ==
    /\ pc = "Polling"
    /\ args = [any_author |-> FALSE, commit_title |-> NoTitle]
    /\ remote = [author |-> user, sha |-> "sha1", state |-> "open", merged |-> FALSE]
    /\ pr = NoPr
    /\ approvers = <<>>
    /\ statuses = <<>>
    /\ log = {}
    /\ merge_calls = 0
    /\ merge_request = NoRequest
    /\ r = NoResponse
    /\ exc = NoExc
    /\ rec_in \in [required : SUBSET Contexts, raw : BoundedSeq(Reports, MaxReports)]
    /\ rec_out = NoOut
    /\ statuses_sha = Unset
    /\ title_in = NoTitleIn
    /\ title_out = NoTitleOut

Reconcile ==
    /\ ~rec_out.done
    /\ rec_out' = [done |-> TRUE,
                   latest |-> LatestStatuses(rec_in.required, rec_in.raw),
                   statuses |-> statuses_get(rec_in.required, rec_in.raw)]
    /\ UNCHANGED <<pc, args, remote, pr, approvers, statuses, log, merge_calls,
                   merge_request, r, exc, rec_in, statuses_sha, title_in,
                   title_out>>

NextReconcile == Reconcile

SpecReconcile == InitReconcile /\ [][NextReconcile]_vars

\* ------------------------------- approvers and commit title on their own
\* The same variables, with the loop at rest: a list of reviews and a title
\* override are drawn and ComputeTitle applies lines 150 and 175 to them.
InitTitle ==
    /\ pc = "Polling"
    /\ args = [any_author |-> FALSE, commit_title |-> NoTitle]
    /\ remote = [author |-> user, sha |-> "sha1", state |-> "open", merged |-> FALSE]
    /\ pr = NoPr
    /\ approvers = <<>>
    /\ statuses = <<>>
    /\ log = {}
    /\ merge_calls = 0
    /\ merge_request = NoRequest
    /\ r = NoResponse
    /\ exc = NoExc
    /\ rec_in = NoRec
    /\ rec_out = NoOut
    /\ statuses_sha = Unset
    /\ title_in \in [reviews : BoundedSeq(TitleReviews, MaxTitleReviews),
                     commit_title : {NoTitle, <<"Release">>}]
    /\ title_out = NoTitleOut

ComputeTitle ==
    /\ ~title_out.done
    /\ title_out' = [done |-> TRUE,
                     approvers |-> Approvers(title_in.reviews),
                     commit_title |-> CommitTitle(title_in.commit_title, "topic",
                                                  Approvers(title_in.reviews))]
    /\ UNCHANGED <<pc, args, remote, pr, approvers, statuses, log, merge_calls,
                   merge_request, r, exc, rec_in, rec_out, statuses_sha, title_in>>

NextTitle == ComputeTitle

SpecTitle == InitTitle /\ [][NextTitle]_vars

\* ------------------------------------------------------------ properties
TypeOK ==
    /\ pc \in {"Polling", "Reviews", "Check", "Statuses", "Evaluate", "Merging",
               "Sleeping"} \cup Terminal
    /\ merge_calls \in 0..1

TransientErrors == {"NotFoundError", "RateLimitError", "TransportError"}

\* C1: in a cycle whose verdict has a failing check, merge is not invoked.
C1_FailingBlocksMerge ==
    (pc = "Merging" \/ merge_calls > 0) => Failing(statuses) = <<>>

\* C2: a cycle whose snapshot is closed never goes on to fetch statuses,
\* evaluate, sleep or merge: it is still fetching the reviews, or the run has
\* ended, Aborted with an explanation by the checks of lines 160-166 (or by the
\* reviews request raising), and merge was never called.
C2_ClosedAborts ==
    state = "closed" =>
        /\ merge_calls = 0
        /\ pc \in {"Reviews", "Check", "Aborted", "Crashed"}
        /\ pc = "Crashed" => exc.call = "reviews_get"
        /\ pc = "Aborted" => log \cap {"closed", "not_author"} # {}

C2_Witness ==
    /\ pc = "Aborted"
    /\ state = "closed"
    /\ "closed" \in log
    /\ mergeable = "true"
    /\ mergeable_state = "clean"

\* C3 as stated: a closed snapshot whose author is rejected is aborted with
\* the explanation of the closed rule.
C3_ClosedRuleFirst ==
    (pc = "Aborted" /\ state = "closed" /\ author # user /\ ~args.any_author)
        => ("closed" \in log /\ "not_author" \notin log)

\* C3 amended: the authorship rule is applied first. An abort before any
\* merge call is explained by the authorship rule whenever the author is
\* rejected, also for a closed snapshot, and by the closed rule only when
\* the author is accepted.
C3_AuthorRuleFirst ==
    (pc = "Aborted" /\ merge_calls = 0) =>
        IF author # user /\ ~args.any_author
        THEN log \cap {"closed", "not_author"} = {"not_author"}
        ELSE state = "closed" /\ log \cap {"closed", "not_author"} = {"closed"}

C3_Witness ==
    /\ pc = "Aborted"
    /\ state = "closed"
    /\ author # user
    /\ ~args.any_author
    /\ "not_author" \in log

\* C4: a read call that fails with NotFoundError, RateLimitError or
\* TransportError does not end the run.
C4_ReadFailureRetries ==
    ~(pc = "Crashed" /\ exc.call \in ReadCalls /\ exc.error \in TransientErrors)

\* C5: merge is called at most once, and after the call the run has ended:
\* Done exactly when the response reports merged, Aborted on any other
\* response, ended by the exception when the call raised.
C5_MergeAtMostOnce ==
    /\ merge_calls <= 1
    /\ merge_calls = 1 =>
        /\ pc \in Terminal
        /\ pc = "Done" <=> r.merged = "true"
        /\ pc = "Aborted" <=> r.merged = "false"
        /\ pc = "Crashed" <=> exc.call = "merge"

C5_Witness ==
    /\ merge_calls = 1
    /\ pc = "Aborted"
    /\ r.merged = "false"

\* The entries of the dict statuses_get returns, as <<state key, index>>.
Entries(st) == UNION {{<<k, i>> : i \in DOMAIN st[k]} : k \in DOMAIN st}

RawContexts == {rec_in.raw[j].context : j \in DOMAIN rec_in.raw}

\* C6: the result of statuses_get has exactly one entry for each context of
\* the input and none for another context, and the entry carries the state
\* and the time of a report of that context whose updated_at is the greatest.
C6_LatestPerContext ==
    rec_out.done =>
        LET st == rec_out.statuses
            raw == rec_in.raw
        IN /\ \A c \in RawContexts :
                Cardinality({e \in Entries(st) : st[e[1]][e[2]].context = c}) = 1
           /\ \A e \in Entries(st) :
                LET x == st[e[1]][e[2]]
                IN /\ x.context \in RawContexts
                   /\ \E j \in DOMAIN raw :
                        /\ raw[j].context = x.context
                        /\ raw[j].state = x.state
                        /\ raw[j].updated_at = x.updated_at
                   /\ \A j \in DOMAIN raw :
                        raw[j].context = x.context => raw[j].updated_at <= x.updated_at

\* An older failure and a newer success of one context give success.
C6_Witness ==
    /\ rec_out.done
    /\ rec_in.raw = <<[context |-> "ci/build", state |-> "failure", updated_at |-> 1],
                      [context |-> "ci/build", state |-> "success", updated_at |-> 2]>>
    /\ Len(Get(rec_out.statuses, "success")) = 1
    /\ Failing(rec_out.statuses) = <<>>

InSeq(x, s) == \E i \in DOMAIN s : s[i] = x

\* C7: of the reconciled checks, those of state failure or error are listed
\* as failing and not as pending, those of state pending as pending and not
\* as failing, those of state success in neither list; both lists hold
\* reconciled checks only.
C7_VerdictPartition ==
    rec_out.done =>
        LET failing == Failing(rec_out.statuses)
            pending == Pending(rec_out.statuses)
            latest == rec_out.latest
        IN /\ \A i \in DOMAIN latest :
                LET c == latest[i]
                IN /\ c.state \in {"failure", "error"} =>
                        InSeq(c, failing) /\ ~InSeq(c, pending)
                   /\ c.state = "pending" => InSeq(c, pending) /\ ~InSeq(c, failing)
                   /\ c.state = "success" => ~InSeq(c, pending) /\ ~InSeq(c, failing)
           /\ \A i \in DOMAIN failing : InSeq(failing[i], latest)
           /\ \A i \in DOMAIN pending : InSeq(pending[i], latest)
           /\ \A i \in DOMAIN failing : ~InSeq(failing[i], pending)
           /\ Len(failing) + Len(pending) <= Len(latest)

C7_Witness ==
    /\ rec_out.done
    /\ Len(rec_out.latest) = 2
    /\ \E i \in DOMAIN rec_out.latest : rec_out.latest[i].state = "error"
    /\ Len(Failing(rec_out.statuses)) = 1
    /\ Len(Pending(rec_out.statuses)) = 1

\* C8: a reconciled check is flagged required exactly when its context is in
\* the required set statuses_get was given.
C8_RequiredFlag ==
    rec_out.done =>
        /\ \A i \in DOMAIN rec_out.latest :
            rec_out.latest[i].required <=> rec_out.latest[i].context \in rec_in.required
        /\ \A e \in Entries(rec_out.statuses) :
            LET x == rec_out.statuses[e[1]][e[2]]
            IN x.required <=> x.context \in rec_in.required

C8_Witness ==
    /\ rec_out.done
    /\ Len(rec_out.latest) = 2
    /\ rec_out.latest[1].required
    /\ ~rec_out.latest[2].required

AuthorAccepted == author = user \/ args.any_author

\* A cycle whose snapshot is open, author-accepted and dirty.
C9_DirtyState ==
    (state = "open" /\ AuthorAccepted /\ mergeable_state = "dirty") =>
        /\ merge_calls = 0
        /\ pc \notin {"Merging", "Done", "Aborted"}
        /\ pc = "Crashed" => exc.call \in ReadCalls
        /\ pc = "Sleeping" => "conflict" \in log

C9_DirtyStep ==
    (pc = "Evaluate" /\ pc' # pc /\ mergeable_state = "dirty") =>
        (pc' = "Sleeping" /\ "conflict" \in log' /\ merge_calls' = merge_calls)

SleepStep == (pc = "Sleeping" /\ pc' # pc) => pc' = "Polling"

\* C9: the cycle of an open, author-accepted snapshot whose mergeable_state
\* is dirty never reaches the merge call and is not aborted; when it is
\* evaluated the conflict is reported and the loop sleeps, and the sleep
\* leads back to Polling.
C9_DirtyWaits == []C9_DirtyState /\ [][C9_DirtyStep]_vars /\ [][SleepStep]_vars

C9_Witness ==
    /\ pc = "Sleeping"
    /\ mergeable_state = "dirty"
    /\ mergeable = "true"
    /\ Failing(statuses) # <<>>
    /\ "conflict" \in log

\* The evaluation of a ready snapshot, and the merge call.
C10_ReadyStep ==
    (/\ pc = "Evaluate" /\ pc' # pc
     /\ state = "open" /\ author = user
     /\ mergeable = "true" /\ mergeable_state = "clean"
     /\ Failing(statuses) = <<>> /\ Pending(statuses) = <<>>)
        => (pc' = "Merging" /\ "mergeable" \in log')

C10_MergeStep ==
    (pc = "Merging" /\ pc' # pc) =>
        /\ merge_calls' = merge_calls + 1
        /\ merge_request'.sha = sha
        /\ r'.merged = "true" => pc' = "Done"

\* C10: evaluating an open snapshot of the current user with mergeable true,
\* mergeable_state clean and no failing or pending check leads to the merge
\* call, which is the next step of the program and carries the sha of the
\* snapshot; a response that reports merged ends the run Done.
C10_MergeNow == [][C10_ReadyStep]_vars /\ [][C10_MergeStep]_vars

C10_Witness ==
    /\ pc = "Done"
    /\ state = "open" /\ author = user
    /\ mergeable = "true" /\ mergeable_state = "clean"
    /\ Failing(statuses) = <<>> /\ Pending(statuses) = <<>>
    /\ merge_calls = 1
    /\ remote.merged

\* C11: a snapshot whose author is not the current user, without
\* --any-author, ends the run Aborted with the authorship explanation before
\* any statuses are fetched or merge is called (or the reviews request raises);
\* with --any-author the authorship explanation is never given, an abort
\* before a merge call is that of a closed snapshot, and a mergeable snapshot
\* of another author is never put to sleep.
C11_AuthorPolicy ==
    /\ (author \notin {user, Unset} /\ ~args.any_author) =>
        /\ merge_calls = 0
        /\ pc \in {"Reviews", "Check", "Aborted", "Crashed"}
        /\ pc = "Crashed" => exc.call = "reviews_get"
        /\ pc = "Aborted" => "not_author" \in log
    /\ args.any_author =>
        /\ "not_author" \notin log
        /\ (pc = "Aborted" /\ merge_calls = 0) => state = "closed"
        /\ (/\ author \notin {user, Unset} /\ state = "open"
            /\ mergeable = "true" /\ mergeable_state \in {"clean", "has_hooks"})
                => pc # "Sleeping"

C11_Witness ==
    /\ pc = "Aborted"
    /\ author = "bob"
    /\ ~args.any_author
    /\ state = "open"
    /\ "not_author" \in log
    /\ merge_calls = 0

\* C13: the merge request carries the sha of the snapshot of its own cycle,
\* the statuses evaluated in a cycle were requested for that sha, and when
\* the pull request is merged the head merged is the sha of that snapshot.
C13_SnapshotSha ==
    /\ merge_calls > 0 => (merge_request.sha = sha /\ statuses_sha = sha)
    /\ pc \in {"Evaluate", "Merging", "Sleeping"} => statuses_sha = sha
    /\ remote.merged => (remote.sha = sha /\ pc = "Done")

\* The head moved after the snapshot was fetched: the merge call carried the
\* sha of the snapshot and nothing was merged.
C13_Witness ==
    /\ exc.call = "merge"
    /\ merge_request.sha = sha
    /\ remote.sha # sha
    /\ ~remote.merged

\* C14: the loop is left only by reaching Done or Aborted.
C14_LeavesOnlyDoneOrAborted ==
    pc \in {"Polling", "Reviews", "Check", "Statuses", "Evaluate", "Merging",
            "Sleeping", "Done", "Aborted"}

C15_ProgramStep ==
    (pc' # pc) =>
        \/ remote' = remote
        \/ /\ pc = "Merging"
           /\ pc' = "Done"
           /\ r'.merged = "true"
           /\ remote' = [remote EXCEPT !.state = "closed", !.merged = TRUE]

C15_MergedByMerge == remote.merged => (merge_calls = 1 /\ r.merged = "true")

\* C15: a step of the program leaves the pull request on the server as it
\* is, except the merge call answered with merged, which makes it merged; the
\* pull request is merged only after such a call.
C15_OnlyMergeWrites == [][C15_ProgramStep]_vars /\ []C15_MergedByMerge

\* A merge call that was rejected left the pull request as it was.
C15_Witness ==
    /\ pc = "Aborted"
    /\ merge_calls = 1
    /\ r.merged = "false"
    /\ remote.state = "open"
    /\ ~remote.merged
    /\ remote.sha = sha

\* C17 as stated: a cycle whose snapshot has mergeable false reports a
\* conflict before it sleeps.
C17_FalseReportsConflict ==
    (pc = "Sleeping" /\ mergeable = "false") => "conflict" \in log

\* C17 amended: a cycle whose snapshot is open, author-accepted and has
\* mergeable false never calls merge and is not aborted; evaluated, it
\* sleeps, and it has reported a conflict exactly when mergeable_state is
\* dirty.
C17_FalseWaits ==
    (state = "open" /\ AuthorAccepted /\ mergeable = "false") =>
        /\ merge_calls = 0
        /\ pc \notin {"Merging", "Done", "Aborted"}
        /\ pc = "Crashed" => exc.call \in ReadCalls
        /\ pc = "Sleeping" =>
            /\ "not_mergeable_yet" \in log
            /\ "conflict" \in log <=> mergeable_state = "dirty"

C17_Witness ==
    /\ pc = "Sleeping"
    /\ mergeable = "false"
    /\ mergeable_state = "blocked"
    /\ "conflict" \notin log
    /\ "not_mergeable_yet" \in log

\* C18: merge is called only in a cycle whose snapshot is open,
\* author-accepted, with mergeable true and mergeable_state clean or
\* has_hooks; an open author-accepted snapshot with mergeable unknown, or
\* mergeable_state blocked or unknown, is neither merged nor aborted, and
\* evaluated it sleeps.
C18_MergeOnlyWhenReady ==
    /\ (pc = "Merging" \/ merge_calls > 0) =>
        /\ state = "open"
        /\ author = user \/ args.any_author
        /\ mergeable = "true"
        /\ mergeable_state \in {"clean", "has_hooks"}
    /\ (/\ state = "open"
        /\ author = user \/ args.any_author
        /\ mergeable = "null" \/ mergeable_state \in {"blocked", "unknown"}) =>
        /\ merge_calls = 0
        /\ pc \notin {"Merging", "Done", "Aborted"}
        /\ pc = "Crashed" => exc.call \in ReadCalls
        /\ pc = "Sleeping" => "not_mergeable_yet" \in log

C18_Witness ==
    /\ pc = "Sleeping"
    /\ mergeable = "null"
    /\ mergeable_state = "unknown"
    /\ "not_mergeable_yet" \in log

\* C12: without an override the title is Merge <branch> [ok:...] with
\* mergebot alone for no approver, the approver and mergebot for one, the
\* first two approvers for two or more; with an override it is the override.
C12_TitleFallback ==
    title_out.done =>
        LET a == title_out.approvers
            ok == CASE Len(a) = 0 -> <<"mergebot">>
                    [] Len(a) = 1 -> <<a[1], "+", "mergebot">>
                    [] OTHER -> <<a[1], "+", a[2]>>
        IN IF title_in.commit_title # NoTitle
           THEN title_out.commit_title = title_in.commit_title
           ELSE title_out.commit_title = <<"Merge ", "topic", " [ok:">> \o ok \o <<"]">>

C12_Witness ==
    /\ title_out.done
    /\ title_out.approvers = <<"alice", "bob", "carol">>
    /\ title_out.commit_title = <<"Merge ", "topic", " [ok:", "alice", "+", "bob", "]">>

\* The positions of the approved reviews, and the k-th of them.
ApprovedAt == {i \in DOMAIN title_in.reviews : title_in.reviews[i].state = "APPROVED"}
NthApproved(k) ==
    CHOOSE i \in ApprovedAt : Cardinality({j \in ApprovedAt : j < i}) = k - 1

\* C19: the approvers are the reviewers of the approved reviews, one per
\* approved review and in the order of the reviews, a reviewer who approved
\* twice appearing twice.
C19_ApproversNotDeduplicated ==
    title_out.done =>
        /\ Len(title_out.approvers) = Cardinality(ApprovedAt)
        /\ \A k \in DOMAIN title_out.approvers :
            title_out.approvers[k] = title_in.reviews[NthApproved(k)].user

C19_Witness ==
    /\ title_out.done
    /\ title_in.reviews = <<[user |-> "alice", state |-> "APPROVED"],
                            [user |-> "alice", state |-> "APPROVED"]>>
    /\ title_out.commit_title = <<"Merge ", "topic", " [ok:", "alice", "+", "alice", "]">>

\* C16: a required context without a report has no entry in the result of
\* statuses_get, so it is listed neither as failing nor as pending; an empty
\* list of reports gives an empty result, whatever is required.
C16_MissingRequiredAbsent ==
    rec_out.done =>
        LET st == rec_out.statuses
        IN /\ \A c \in rec_in.required \ RawContexts :
                /\ \A e \in Entries(st) : st[e[1]][e[2]].context # c
                /\ \A i \in DOMAIN Failing(st) : Failing(st)[i].context # c
                /\ \A i \in DOMAIN Pending(st) : Pending(st)[i].context # c
           /\ rec_in.raw = <<>> =>
                (DOMAIN st = {} /\ Failing(st) = <<>> /\ Pending(st) = <<>>)

C16_Witness ==
    /\ rec_out.done
    /\ rec_in.raw = <<>>
    /\ rec_in.required = Contexts
    /\ DOMAIN rec_out.statuses = {}

\* No request has raised, and the snapshot of the cycle, once fetched, is
\* open, author-accepted and mergeable.
C20_Ready ==
    /\ exc = NoExc
    /\ pr # NoPr =>
        /\ state = "open"
        /\ author = user \/ args.any_author
        /\ mergeable = "true"
        /\ mergeable_state \in {"clean", "has_hooks"}

\* C20: if from some point on no request raises and every snapshot fetched
\* is open, author-accepted, with mergeable true and mergeable_state clean or
\* has_hooks, the program eventually calls merge and ends Done or Aborted.
C20_EventuallyMerges ==
    <>[]C20_Ready => <>(merge_calls = 1 /\ pc \in {"Done", "Aborted"})

\* A run that waited on a head since replaced, then merged the new head.
C20_Witness ==
    /\ pc = "Done"
    /\ merge_calls = 1
    /\ mergeable_state = "has_hooks"
    /\ sha = "sha2"
    /\ remote.merged

====
